---- MODULE Spec2Model ----
(***************************************************************************)
(* Model of esimov/facemask, src/main.go.                                  *)
(*                                                                         *)
(* src/main.go holds two copies of the program.  Lines 1-333 are the mask  *)
(* generator ("mask"), lines 335-699 the diagnostic copy ("debug") that    *)
(* also draws a marker at each landmark point and places the mask with a   *)
(* 0.8 factor.  The variable `variant` says which copy runs.               *)
(*                                                                         *)
(* Numbers.  face.Q (float32) is kept in tenths (50 is 5.0), the scale     *)
(* flag in hundredths (105 is 1.05).  Every other float is an exact        *)
(* rational <<numerator, denominator>>.  The input sets below are chosen   *)
(* so that the float32/float64 results of the code equal the exact         *)
(* rationals (mask sizes such as 50x60 do not, and are left out).          *)
(*                                                                         *)
(* Strings whose characters matter (the two paths) are sequences of        *)
(* one-character strings.                                                  *)
(***************************************************************************)
EXTENDS Integers, Sequences, FiniteSets, TLC

VARIABLES
    variant,      \* "mask": main.go:1-333, "debug": main.go:335-699
    source,       \* flag -in
    destination,  \* flag -out
    scaleFactor,  \* flag -scale, in hundredths
    world,        \* the files and what the external detectors answer
    mainPc,       \* position of the main goroutine
    failure,      \* the step that failed, "none" while nothing failed
    spinPc,       \* position of the spinner goroutine
    r,            \* index of the spinner's frame in the rune string
    stopChan,     \* number of values buffered in s.stopChan
    stopSent,     \* main has completed the send in spinner.stop
    framesAfterStop, \* frames printed since the send (capped)
    dc,           \* the drawing context: the sequence of draw operations
    flpcs,        \* names of the landmark cascades that were loaded
    faces,        \* the clustered detections returned by detectFaces
    idx,          \* position of the range loop of drawFaces (1-based)
    imgScale,     \* drawFaces local, declared outside the loop
    leftEye,      \* drawFaces locals of the current face
    rightEye,
    flp1,
    flp2,
    maskImg,      \* the decoded mask of the current face (its bounds)
    calls,        \* history: the external calls, in order
    transforms,   \* history: the alignment computed for each drawn face
    outputOpened, \* os.OpenFile(fd.destination) succeeded
    donePrinted   \* the "Done in" line was printed

vars == <<variant, source, destination, scaleFactor, world, mainPc, failure,
          spinPc, r, stopChan, stopSent, framesAfterStop, dc, flpcs, faces,
          idx, imgScale, leftEye, rightEye, flp1, flp2, maskImg, calls,
          transforms, outputOpened, donePrinted>>

flagVars == <<variant, source, destination, scaleFactor, world>>
spinVars == <<spinPc, r, stopChan, stopSent, framesAfterStop>>
drawVars == <<dc, flpcs, faces, idx, imgScale, leftEye, rightEye, flp1, flp2,
              maskImg, calls, transforms, outputOpened>>
faceLocals == <<leftEye, rightEye, flp1, flp2, maskImg>>

----------------------------------------------------------------------------
(* Bounds of the model. *)

\* longest clustered detection list
MaxFaces == 2

\* framesAfterStop stops counting here
FrameCap == 3

----------------------------------------------------------------------------
(* Program constants. *)

\* qThresh = float32(5.0), in tenths
qThresh == 50

perturb == 63

\* the check of main: *scaleFactor < 1.05, in hundredths
MinScaleFactor == 105

\* make(chan struct{}, 1)
StopChanCap == 1

\* the ten runes of the spinner
NumFrames == 10

fileTypes == << <<".", "j", "p", "g">>, <<".", "j", "p", "e", "g">>,
                <<".", "p", "n", "g">> >>

----------------------------------------------------------------------------
(* Arithmetic of the code. *)

Max(a, b) == IF a > b THEN a ELSE b

Min(a, b) == IF a < b THEN a ELSE b

\* Go's integer division and float-to-int conversion truncate toward zero.
GoDiv(a, b) == IF a >= 0 THEN a \div b ELSE -((-a) \div b)

\* int(q) of a rational
RatInt(q) == GoDiv(q[1], q[2])

NoPoint == [Row |-> 0, Col |-> 0, Scale |-> 0]

NoImage == [Dx |-> -1, Dy |-> -1]

----------------------------------------------------------------------------
(* path/filepath.Ext and inSlice. *)

RECURSIVE ExtFrom(_, _)
\* the loop of filepath.Ext: i runs down from len(path)-1 while path[i] is not
\* a separator; the first '.' met gives the suffix path[i:]
ExtFrom(path, i) ==
    IF i < 1 \/ path[i] = "/" THEN <<>>
    ELSE IF path[i] = "." THEN SubSeq(path, i, Len(path))
    ELSE ExtFrom(path, i - 1)

Ext(path) == ExtFrom(path, Len(path))

\* inSlice returning after its first comparison
inSliceFirstOnly(item, slice) == Len(slice) > 0 /\ slice[1] = item

inSlice(item, slice) == \E k \in 1..Len(slice) : slice[k] = item

----------------------------------------------------------------------------
(* The inputs: flags, files and the answers of the external detectors. *)

EmptyPath == <<>>

InJpg == <<"i", ".", "j", "p", "g">>

OutPng == <<"o", ".", "p", "n", "g">>

Destinations ==
    { EmptyPath, OutPng,
      <<"o", ".", "j", "p", "g">>,
      <<"o", ".", "j", "p", "e", "g">>,
      <<"o", ".", "P", "N", "G">>,
      <<"o", ".", "g", "i", "f">>,
      <<"o">>,
      <<"a", ".", "p", "n", "g", "/", "o">>,
      <<"a", ".", "b", ".", "p", "n", "g">> }

Sources == { EmptyPath, InJpg }

\* values of -scale, in hundredths; 110 is the default
ScaleFactors == { 100, 104, 105, 106, 110 }

Det(row, col, scale, q) == [Row |-> row, Col |-> col, Scale |-> scale, Q |-> q]

Pt(row, col, scale) == [Row |-> row, Col |-> col, Scale |-> scale]

\* A scene is one face of the picture: the detection the classifier reports
\* for it and the points the pupil and landmark cascades return for it.
Scene(det, le, re, p1, p2) ==
    [det |-> det, leftEye |-> le, rightEye |-> re, flp1 |-> p1, flp2 |-> p2]

SceneExample ==
    Scene(Det(100, 100, 80, 100), Pt(94, 86, 20), Pt(94, 114, 20),
          Pt(130, 90, 40), Pt(128, 110, 40))

SceneAtThreshold ==
    Scene(Det(60, 140, 40, 50), Pt(57, 133, 10), Pt(57, 147, 10),
          Pt(75, 135, 40), Pt(75, 145, 40))

SceneBelow ==
    Scene(Det(30, 40, 20, 30), Pt(29, 37, 5), Pt(29, 43, 5),
          Pt(36, 38, 40), Pt(36, 42, 40))

SceneLarge ==
    Scene(Det(90, 50, 300, 51), Pt(68, -2, 75), Pt(68, 105, 75),
          Pt(200, 20, 40), Pt(203, 90, 40))

\* nothing but the left pupil is found
SceneSmall ==
    Scene(Det(70, 150, 40, 80), Pt(67, 143, 10), NoPoint, NoPoint, NoPoint)

SceneHalf ==
    Scene(Det(120, 60, 120, 75), Pt(111, 39, 30), Pt(111, 82, 30),
          Pt(-3, 70, 40), Pt(150, 0, 40))

Scenes == { SceneExample, SceneAtThreshold, SceneBelow, SceneLarge,
            SceneSmall, SceneHalf }

SpinScenes == { SceneExample, SceneBelow }

\* bounds of the source picture: cols, rows = src.Bounds().Max.X, .Max.Y
ImageSize == [Dx |-> 320, Dy |-> 240]

\* bounds of the mask asset assets/facemask.png
MaskSizes == { [Dx |-> 200, Dy |-> 200], [Dx |-> 100, Dy |-> 50],
               [Dx |-> 30, Dy |-> 60] }

\* contents of the directory cascades/lps that ReadCascadeDir may find
CascadeDirs == { {"lp84"}, {"lp38"} }

SeqsUpTo(S, n) == UNION { [1..k -> S] : k \in 0..n }

Worlds(sceneSet, sizes) ==
    { [scenes |-> sc, mask |-> m] : sc \in SeqsUpTo(sceneSet, MaxFaces), m \in sizes }

Variants == { "mask", "debug" }

----------------------------------------------------------------------------
(* Initial states. *)

InitRun ==
    /\ mainPc = "CheckArgs"
    /\ failure = "none"
    /\ spinPc = "idle"
    /\ r = 0
    /\ stopChan = 0
    /\ stopSent = FALSE
    /\ framesAfterStop = 0
    /\ dc = <<>>
    /\ flpcs = {}
    /\ faces = <<>>
    /\ idx = 1
    /\ imgScale = <<0, 1>>
    /\ leftEye = NoPoint
    /\ rightEye = NoPoint
    /\ flp1 = NoPoint
    /\ flp2 = NoPoint
    /\ maskImg = NoImage
    /\ calls = <<>>
    /\ transforms = <<>>
    /\ outputOpened = FALSE
    /\ donePrinted = FALSE

\* every combination of the three checked flags, on one picture
InitFlags ==
    /\ variant \in Variants
    /\ source \in Sources
    /\ destination \in Destinations
    /\ scaleFactor \in ScaleFactors
    /\ world = [scenes |-> <<SceneExample>>, mask |-> [Dx |-> 200, Dy |-> 200]]

\* every picture, with flags that pass the checks
InitWorld ==
    /\ variant \in Variants
    /\ source = InJpg
    /\ destination = OutPng
    /\ scaleFactor = 110
    /\ world \in Worlds(Scenes, MaskSizes)

Init == InitRun /\ (InitFlags \/ InitWorld)

\* the runs the spinner is checked on: a passing and three failing settings of
\* the flags, short pictures
InitSpin ==
    /\ InitRun
    /\ variant \in Variants
    /\ \E f \in { <<InJpg, OutPng, 110>>, <<EmptyPath, OutPng, 110>>,
                   <<InJpg, <<"o">>, 110>>, <<InJpg, OutPng, 100>> } :
          source = f[1] /\ destination = f[2] /\ scaleFactor = f[3]
    /\ world \in Worlds(SpinScenes, {[Dx |-> 200, Dy |-> 200]})

----------------------------------------------------------------------------
(* Helpers of the actions. *)

Call(fn, face, args) == [fn |-> fn, face |-> face, args |-> args]

\* one entry of dc: what was drawn and where
Draw(op, face, x, y, w, h, ay, ax) ==
    [op |-> op, face |-> face, x |-> x, y |-> y, w |-> w, h |-> h,
     ay |-> ay, ax |-> ax]

\* log.Fatal / log.Fatalf: print, then os.Exit(1)
Fatal(step) ==
    /\ mainPc' = "fatal"
    /\ failure' = step

\* the process is running: os.Exit, a panic or the return of main ends every
\* goroutine
Alive == mainPc \notin {"fatal", "panic", "exited"}

----------------------------------------------------------------------------
(* main: the checks of the flags. *)

CheckArgs ==
    /\ mainPc = "CheckArgs"
    /\ IF Len(source) = 0 \/ Len(destination) = 0
       THEN Fatal("usage")
       ELSE mainPc' = "CheckExt" /\ UNCHANGED failure
    /\ UNCHANGED <<flagVars, spinVars, drawVars, donePrinted>>

CheckExt ==
    /\ mainPc = "CheckExt"
    /\ IF ~inSlice(Ext(destination), fileTypes)
       THEN Fatal("ext")
       ELSE mainPc' = "CheckScale" /\ UNCHANGED failure
    /\ UNCHANGED <<flagVars, spinVars, drawVars, donePrinted>>

ScaleTooSmall(sf) == sf < MinScaleFactor

CheckScale ==
    /\ mainPc = "CheckScale"
    /\ IF ScaleTooSmall(scaleFactor)
       THEN Fatal("scale")
       ELSE mainPc' = "StartSpinner" /\ UNCHANGED failure
    /\ UNCHANGED <<flagVars, spinVars, drawVars, donePrinted>>

----------------------------------------------------------------------------
(* The spinner. *)

\* s.start: make the channel, start the goroutine
StartSpinner ==
    /\ mainPc = "StartSpinner"
    /\ stopChan' = 0
    /\ spinPc' = "select"
    /\ r' = 0
    /\ mainPc' = "GetImage"
    /\ UNCHANGED <<flagVars, failure, stopSent, framesAfterStop, drawVars,
                   donePrinted>>

\* the stop case leaving only the select (break) instead of the goroutine
SpinSelectBreak ==
    /\ Alive
    /\ spinPc = "select"
    /\ IF stopChan > 0
       THEN stopChan' = stopChan - 1 /\ spinPc' = "print"
       ELSE spinPc' = "print" /\ UNCHANGED stopChan
    /\ UNCHANGED <<flagVars, mainPc, failure, r, stopSent, framesAfterStop,
                   drawVars, donePrinted>>

\* the select of the goroutine: receive if a value is buffered, else default
SpinSelect ==
    /\ Alive
    /\ spinPc = "select"
    /\ IF stopChan > 0
       THEN stopChan' = stopChan - 1 /\ spinPc' = "returned"
       ELSE spinPc' = "print" /\ UNCHANGED stopChan
    /\ UNCHANGED <<flagVars, mainPc, failure, r, stopSent, framesAfterStop,
                   drawVars, donePrinted>>

\* the default case: print the frame, sleep, go to the next rune
SpinPrint ==
    /\ Alive
    /\ spinPc = "print"
    /\ framesAfterStop' = IF stopSent THEN Min(framesAfterStop + 1, FrameCap)
                          ELSE framesAfterStop
    /\ r' = (r + 1) % NumFrames
    /\ spinPc' = "select"
    /\ UNCHANGED <<flagVars, mainPc, failure, stopChan, stopSent, drawVars,
                   donePrinted>>

\* s.stop: the send blocks while the buffer is full
Stop ==
    /\ mainPc = "Stop"
    /\ stopChan < StopChanCap
    /\ stopChan' = stopChan + 1
    /\ stopSent' = TRUE
    /\ mainPc' = "PrintDone"
    /\ UNCHANGED <<flagVars, failure, spinPc, r, framesAfterStop, drawVars,
                   donePrinted>>

PrintDone ==
    /\ mainPc = "PrintDone"
    /\ donePrinted' = TRUE
    /\ mainPc' = "Return"
    /\ UNCHANGED <<flagVars, failure, spinVars, drawVars>>

\* main returns and the process ends
Return ==
    /\ mainPc = "Return"
    /\ mainPc' = "exited"
    /\ UNCHANGED <<flagVars, failure, spinVars, drawVars, donePrinted>>

----------------------------------------------------------------------------
(* detectFaces.  An error is returned to main, which calls log.Fatalf. *)

\* a step of detectFaces that reads or unpacks a file and changes nothing else
IoStep(here, next, fn) ==
    /\ mainPc = here
    /\ calls' = Append(calls, Call(fn, 0, <<>>))
    /\ \E ok \in BOOLEAN :
         IF ok THEN mainPc' = next /\ UNCHANGED failure ELSE Fatal(here)
    /\ UNCHANGED <<flagVars, spinVars, dc, flpcs, faces, idx, imgScale,
                   faceLocals, transforms, outputOpened, donePrinted>>

\* pigo.GetImage, then gg.NewContext and dc.DrawImage(src, 0, 0)
GetImage ==
    /\ mainPc = "GetImage"
    /\ calls' = Append(calls, Call("GetImage", 0, <<>>))
    /\ \E ok \in BOOLEAN :
         IF ok
         THEN /\ dc' = <<Draw("src", 0, 0, 0, ImageSize.Dx, ImageSize.Dy, 0, 0)>>
              /\ mainPc' = "ReadFaceCascade"
              /\ UNCHANGED failure
         ELSE Fatal("GetImage") /\ UNCHANGED dc
    /\ UNCHANGED <<flagVars, spinVars, flpcs, faces, idx, imgScale, faceLocals,
                   transforms, outputOpened, donePrinted>>

ReadFaceCascade == IoStep("ReadFaceCascade", "UnpackFaceCascade", "ReadFile")

UnpackFaceCascade == IoStep("UnpackFaceCascade", "ReadEyesCascade", "Unpack")

ReadEyesCascade == IoStep("ReadEyesCascade", "UnpackEyesCascade", "ReadFile")

UnpackEyesCascade == IoStep("UnpackEyesCascade", "ReadCascadeDir", "UnpackCascade")

ReadCascadeDir ==
    /\ mainPc = "ReadCascadeDir"
    /\ calls' = Append(calls, Call("ReadCascadeDir", 0, <<>>))
    /\ \/ /\ \E names \in CascadeDirs : flpcs' = names
          /\ mainPc' = "RunCascade"
          /\ UNCHANGED failure
       \/ Fatal("ReadCascadeDir") /\ UNCHANGED flpcs
    /\ UNCHANGED <<flagVars, spinVars, dc, faces, idx, imgScale, faceLocals,
                   transforms, outputOpened, donePrinted>>

\* RunCascade and ClusterDetections; detectFaces returns, drawFaces starts
RunCascade ==
    /\ mainPc = "RunCascade"
    /\ calls' = Append(calls, Call("RunCascade", 0, <<>>))
    /\ faces' = [i \in 1..Len(world.scenes) |-> world.scenes[i].det]
    /\ idx' = 1
    /\ imgScale' = <<0, 1>>
    /\ mainPc' = "ForFace"
    /\ UNCHANGED <<flagVars, failure, spinVars, dc, flpcs, faceLocals,
                   transforms, outputOpened, donePrinted>>

----------------------------------------------------------------------------
(* drawFaces: the computations. *)

\* the test of the score written with >=
QualifiesAtThreshold(face) == face.Q >= qThresh

\* face.Q > qThresh
Qualifies(face) == face.Q > qThresh

\* the search window of an eye: int(0.075*s), int(0.175*s), int(0.185*s),
\* and the scale s*0.25 as a rational
PupilWindow(face, right) ==
    [Row |-> face.Row - GoDiv(3 * face.Scale, 40),
     Col |-> IF right THEN face.Col + GoDiv(37 * face.Scale, 200)
                      ELSE face.Col - GoDiv(7 * face.Scale, 40),
     Scale |-> <<face.Scale, 4>>,
     Perturbs |-> perturb]

\* imgScale declared inside the loop: every face starts from 0
NewImgScalePerFace(face, dx, dy, old) ==
    IF face.Scale < dx \/ face.Scale < dy
    THEN IF dx > dy THEN <<face.Scale, dx>> ELSE <<face.Scale, dy>>
    ELSE <<0, 1>>

\* the rescale branch; imgScale keeps its old value when it is not taken
NewImgScale(face, dx, dy, old) ==
    IF face.Scale < dx \/ face.Scale < dy
    THEN IF dx > dy THEN <<face.Scale, dx>> ELSE <<face.Scale, dy>>
    ELSE old

\* float64(d)*imgScale*0.75
Scaled(d, sc) == <<d * sc[1] * 3, sc[2] * 4>>

\* int(q/2)
HalfInt(q) == RatInt(<<q[1], 2 * q[2]>>)

\* "mask": face.Col - int(width/2); "debug": face.Row - int(width/2*0.8)
Tx(v, face, width) ==
    IF v = "mask" THEN face.Col - HalfInt(width)
    ELSE face.Row - RatInt(<<4 * width[1], 10 * width[2]>>)

\* flp1.Row + (flp1.Row-flp2.Row)/2 - int(height/2)
Ty(p1, p2, height) == p1.Row + GoDiv(p1.Row - p2.Row, 2) - HalfInt(height)

\* imaging.Resize: an empty image for 0x0, and a zero side is replaced by the
\* side that keeps the aspect ratio (at least 1)
Resize(img, w, h) ==
    IF w < 0 \/ h < 0 \/ (w = 0 /\ h = 0) \/ img.Dx <= 0 \/ img.Dy <= 0
    THEN [Dx |-> 0, Dy |-> 0]
    ELSE [Dx |-> IF w = 0 THEN Max(1, (2 * h * img.Dx + img.Dy) \div (2 * img.Dy))
                 ELSE w,
          Dy |-> IF h = 0 THEN Max(1, (2 * w * img.Dy + img.Dx) \div (2 * img.Dx))
                 ELSE h]

\* the alignment of one face, from the locals of drawFaces
Alignment(v, i, face, p1, p2, img, old) ==
    LET sc == NewImgScale(face, img.Dx, img.Dy, old)
        width == Scaled(img.Dx, sc)
        height == Scaled(img.Dy, sc)
    IN  [face |-> i, scale |-> sc, width |-> width, height |-> height,
         tx |-> Tx(v, face, width), ty |-> Ty(p1, p2, height),
         ay |-> p2.Col - p1.Col, ax |-> p2.Row - p1.Row]

\* drawDetections: the arc of radius r*0.15 around (x, y), r = flp.Scale*0.5
Marker(i, flp) ==
    Draw("marker", i, flp.Col, flp.Row, <<3 * flp.Scale, 40>>,
         <<3 * flp.Scale, 40>>, 0, 0)

\* the landmark markers exist only in the diagnostic copy
WithMarker(v, canvas, i, flp) ==
    IF v = "debug" /\ flp.Row > 0 /\ flp.Col > 0
    THEN Append(canvas, Marker(i, flp))
    ELSE canvas

----------------------------------------------------------------------------
(* drawFaces: the loop over the faces. *)

\* the head of the range loop and the test of the score
ForFace ==
    /\ mainPc = "ForFace"
    /\ IF idx > Len(faces)
       THEN mainPc' = "OpenOutput" /\ UNCHANGED idx
       ELSE IF Qualifies(faces[idx])
            THEN mainPc' = "StrokeRect" /\ UNCHANGED idx
            ELSE idx' = idx + 1 /\ UNCHANGED mainPc
    /\ UNCHANGED <<flagVars, failure, spinVars, dc, flpcs, faces, imgScale,
                   faceLocals, calls, transforms, outputOpened, donePrinted>>

\* dc.DrawRectangle ... dc.Stroke
StrokeRect ==
    /\ mainPc = "StrokeRect"
    /\ LET face == faces[idx]
       IN  dc' = Append(dc, Draw("rect", idx,
                                 face.Col - GoDiv(face.Scale, 2),
                                 face.Row - GoDiv(face.Scale, 2),
                                 face.Scale, face.Scale, 0, 0))
    /\ mainPc' = "LeftEye"
    /\ UNCHANGED <<flagVars, failure, spinVars, flpcs, faces, idx, imgScale,
                   faceLocals, calls, transforms, outputOpened, donePrinted>>

LeftEye ==
    /\ mainPc = "LeftEye"
    /\ calls' = Append(calls, Call("RunDetector", idx,
                                   <<PupilWindow(faces[idx], FALSE)>>))
    /\ leftEye' = world.scenes[idx].leftEye
    /\ mainPc' = "RightEye"
    /\ UNCHANGED <<flagVars, failure, spinVars, dc, flpcs, faces, idx, imgScale,
                   rightEye, flp1, flp2, maskImg, transforms, outputOpened,
                   donePrinted>>

RightEye ==
    /\ mainPc = "RightEye"
    /\ calls' = Append(calls, Call("RunDetector", idx,
                                   <<PupilWindow(faces[idx], TRUE)>>))
    /\ rightEye' = world.scenes[idx].rightEye
    /\ mainPc' = "Landmark1"
    /\ UNCHANGED <<flagVars, failure, spinVars, dc, flpcs, faces, idx, imgScale,
                   leftEye, flp1, flp2, maskImg, transforms, outputOpened,
                   donePrinted>>

\* flpcs["lp84"][0].FindLandmarkPoints(leftEye, rightEye, ..., false); the
\* index panics when the directory held no lp84 cascade
Landmark1 ==
    /\ mainPc = "Landmark1"
    /\ IF "lp84" \in flpcs
       THEN /\ calls' = Append(calls, Call("FindLandmarkPoints", idx,
                                           <<leftEye, rightEye, FALSE>>))
            /\ flp1' = world.scenes[idx].flp1
            /\ dc' = WithMarker(variant, dc, idx, world.scenes[idx].flp1)
            /\ mainPc' = "Landmark2"
            /\ UNCHANGED failure
       ELSE /\ mainPc' = "panic"
            /\ failure' = "lp84"
            /\ UNCHANGED <<calls, flp1, dc>>
    /\ UNCHANGED <<flagVars, spinVars, flpcs, faces, idx, imgScale, leftEye,
                   rightEye, flp2, maskImg, transforms, outputOpened,
                   donePrinted>>

\* the second landmark call made with the flag of the first
Landmark2SameFlag ==
    /\ mainPc = "Landmark2"
    /\ calls' = Append(calls, Call("FindLandmarkPoints", idx,
                                   <<leftEye, rightEye, FALSE>>))
    /\ flp2' = world.scenes[idx].flp2
    /\ dc' = WithMarker(variant, dc, idx, world.scenes[idx].flp2)
    /\ mainPc' = "OpenMask"
    /\ UNCHANGED <<flagVars, failure, spinVars, flpcs, faces, idx, imgScale,
                   leftEye, rightEye, flp1, maskImg, transforms, outputOpened,
                   donePrinted>>

Landmark2 ==
    /\ mainPc = "Landmark2"
    /\ calls' = Append(calls, Call("FindLandmarkPoints", idx,
                                   <<leftEye, rightEye, TRUE>>))
    /\ flp2' = world.scenes[idx].flp2
    /\ dc' = WithMarker(variant, dc, idx, world.scenes[idx].flp2)
    /\ mainPc' = "OpenMask"
    /\ UNCHANGED <<flagVars, failure, spinVars, flpcs, faces, idx, imgScale,
                   leftEye, rightEye, flp1, maskImg, transforms, outputOpened,
                   donePrinted>>

\* the error of os.OpenFile skipping the face (continue) instead of returning
OpenMaskContinue ==
    /\ mainPc = "OpenMask"
    /\ calls' = Append(calls, Call("OpenFile", idx, <<"assets/facemask.png">>))
    /\ \E ok \in BOOLEAN :
         IF ok THEN mainPc' = "DecodeMask" /\ UNCHANGED <<failure, idx>>
         ELSE mainPc' = "ForFace" /\ failure' = "OpenMask" /\ idx' = idx + 1
    /\ UNCHANGED <<flagVars, spinVars, dc, flpcs, faces, imgScale,
                   faceLocals, transforms, outputOpened, donePrinted>>

\* os.OpenFile("assets/facemask.png"); the error is returned to main
OpenMask ==
    /\ mainPc = "OpenMask"
    /\ calls' = Append(calls, Call("OpenFile", idx, <<"assets/facemask.png">>))
    /\ \E ok \in BOOLEAN :
         IF ok THEN mainPc' = "DecodeMask" /\ UNCHANGED failure
         ELSE Fatal("OpenMask")
    /\ UNCHANGED <<flagVars, spinVars, dc, flpcs, faces, idx, imgScale,
                   faceLocals, transforms, outputOpened, donePrinted>>

\* png.Decode(mask); log.Fatal on error
DecodeMask ==
    /\ mainPc = "DecodeMask"
    /\ calls' = Append(calls, Call("Decode", idx, <<"assets/facemask.png">>))
    /\ \E ok \in BOOLEAN :
         IF ok
         THEN mainPc' = "Composite" /\ maskImg' = world.mask /\ UNCHANGED failure
         ELSE Fatal("DecodeMask") /\ UNCHANGED maskImg
    /\ UNCHANGED <<flagVars, spinVars, dc, flpcs, faces, idx, imgScale,
                   leftEye, rightEye, flp1, flp2, transforms, outputOpened,
                   donePrinted>>

\* a face whose landmark points are degenerate is skipped
CompositeSkipDegenerate ==
    /\ mainPc = "Composite"
    /\ IF flp1.Row <= 0 \/ flp1.Col <= 0 \/ flp2.Row <= 0 \/ flp2.Col <= 0
       THEN UNCHANGED <<imgScale, transforms, calls, dc>>
       ELSE LET t == Alignment(variant, idx, faces[idx], flp1, flp2, maskImg, imgScale)
                resized == Resize(maskImg, RatInt(t.width), RatInt(t.height))
            IN  /\ imgScale' = t.scale
                /\ transforms' = Append(transforms, t)
                /\ calls' = Append(calls, Call("DrawImage", idx, <<t.tx, t.ty>>))
                /\ dc' = Append(dc, Draw("mask", idx, t.tx, t.ty, resized.Dx,
                                         resized.Dy, t.ay, t.ax))
    /\ idx' = idx + 1
    /\ mainPc' = "ForFace"
    /\ UNCHANGED <<flagVars, failure, spinVars, flpcs, faces, faceLocals,
                   outputOpened, donePrinted>>

\* angle, scale, size and origin, then Resize, Rotate and dc.DrawImage
Composite ==
    /\ mainPc = "Composite"
    /\ LET t == Alignment(variant, idx, faces[idx], flp1, flp2, maskImg, imgScale)
           resized == Resize(maskImg, RatInt(t.width), RatInt(t.height))
       IN  /\ imgScale' = t.scale
           /\ transforms' = Append(transforms, t)
           /\ calls' = Append(calls, Call("DrawImage", idx, <<t.tx, t.ty>>))
           /\ dc' = Append(dc, Draw("mask", idx, t.tx, t.ty, resized.Dx,
                                    resized.Dy, t.ay, t.ax))
    /\ idx' = idx + 1
    /\ mainPc' = "ForFace"
    /\ UNCHANGED <<flagVars, failure, spinVars, flpcs, faces, faceLocals,
                   outputOpened, donePrinted>>

\* os.OpenFile(fd.destination, O_CREATE|O_RDWR)
OpenOutput ==
    /\ mainPc = "OpenOutput"
    /\ calls' = Append(calls, Call("OpenFile", 0, <<"destination">>))
    /\ \E ok \in BOOLEAN :
         IF ok THEN mainPc' = "Encode" /\ outputOpened' = TRUE /\ UNCHANGED failure
         ELSE Fatal("OpenOutput") /\ UNCHANGED outputOpened
    /\ UNCHANGED <<flagVars, spinVars, dc, flpcs, faces, idx, imgScale,
                   faceLocals, transforms, donePrinted>>

\* the encoder the switch on the extension selects; "" for no case
Encoder(ext) ==
    IF ext \in { <<".", "j", "p", "g">>, <<".", "j", "p", "e", "g">> } THEN "jpeg.Encode"
    ELSE IF ext = <<".", "p", "n", "g">> THEN "png.Encode"
    ELSE ""

Encode ==
    /\ mainPc = "Encode"
    /\ LET enc == Encoder(Ext(destination))
       IN  IF enc = ""
           THEN mainPc' = "Stop" /\ UNCHANGED <<calls, failure>>
           ELSE /\ calls' = Append(calls, Call(enc, 0, <<"destination">>))
                /\ \E ok \in BOOLEAN :
                     IF ok THEN mainPc' = "Stop" /\ UNCHANGED failure
                     ELSE Fatal("Encode")
    /\ UNCHANGED <<flagVars, spinVars, dc, flpcs, faces, idx, imgScale,
                   faceLocals, transforms, outputOpened, donePrinted>>

----------------------------------------------------------------------------
(* The specifications. *)

MainStep ==
    \/ CheckArgs \/ CheckExt \/ CheckScale \/ StartSpinner
    \/ GetImage \/ ReadFaceCascade \/ UnpackFaceCascade \/ ReadEyesCascade
    \/ UnpackEyesCascade \/ ReadCascadeDir \/ RunCascade
    \/ ForFace \/ StrokeRect \/ LeftEye \/ RightEye \/ Landmark1 \/ Landmark2
    \/ OpenMask \/ DecodeMask \/ Composite \/ OpenOutput \/ Encode
    \/ Stop \/ PrintDone \/ Return

SpinStep == SpinSelect \/ SpinPrint

Next == MainStep \/ SpinStep

Spec == Init /\ [][Next]_vars

\* The goroutine of the spinner is scheduled again and again while the process
\* runs; nothing is assumed about main.
SpinSpec == InitSpin /\ [][Next]_vars /\ WF_vars(SpinStep)

----------------------------------------------------------------------------
(* Vocabulary of the properties. *)

\* the positions of dc where the mask of face i was drawn
MaskDraws(i) == { k \in 1..Len(dc) : dc[k].op = "mask" /\ dc[k].face = i }

\* the loop of drawFaces has finished the iteration of face i
Passed(i) == i \in 1..Len(faces) /\ i < idx

EndsWith(path, suffix) ==
    /\ Len(path) >= Len(suffix)
    /\ SubSeq(path, Len(path) - Len(suffix) + 1, Len(path)) = suffix

\* the path ends in .jpg, .jpeg or .png
SupportedOutput(path) ==
    \/ EndsWith(path, <<".", "j", "p", "g">>)
    \/ EndsWith(path, <<".", "j", "p", "e", "g">>)
    \/ EndsWith(path, <<".", "p", "n", "g">>)

\* main has not gone past the checks of the flags
BeforeSpinner ==
    /\ spinPc = "idle"
    /\ calls = <<>>
    /\ dc = <<>>
    /\ ~outputOpened
    /\ ~stopSent
    /\ ~donePrinted

Abs(a) == IF a < 0 THEN -a ELSE a

\* equality of two rationals
RatEq(a, b) == a[1] * b[2] = b[1] * a[2]

RECURSIVE ScaleAfter(_, _, _)
\* the scale the specification gives to face i of the list fs for the mask m:
\* that of the last face up to i that has a score above 5.0 and is smaller
\* than the mask in one dimension, 0 when there is none
ScaleAfter(fs, i, m) ==
    IF i = 0 THEN <<0, 1>>
    ELSE IF fs[i].Q > 50 /\ (fs[i].Scale < m.Dx \/ fs[i].Scale < m.Dy)
         THEN <<fs[i].Scale, Max(m.Dx, m.Dy)>>
         ELSE ScaleAfter(fs, i - 1, m)

\* the steps C7 names: reading the picture, reading or unpacking a cascade,
\* opening or decoding the mask
AbortingSteps ==
    { "GetImage", "ReadFaceCascade", "UnpackFaceCascade", "ReadEyesCascade",
      "UnpackEyesCascade", "ReadCascadeDir", "OpenMask", "DecodeMask" }

CallsOf(fn) == { k \in 1..Len(calls) : calls[k].fn = fn }

\* reads of the mask asset: the calls of fn made inside the loop of the faces
MaskReads(fn) == { k \in CallsOf(fn) : calls[k].face > 0 }

Degenerate(pt) == pt.Row <= 0 \/ pt.Col <= 0

\* what a call is, for the order of the calls
StepOf(c) ==
    IF c.fn = "RunDetector"
    THEN <<IF c.args[1].Col < faces[c.face].Col THEN "pupil-left" ELSE "pupil-right",
           c.face>>
    ELSE IF c.fn = "FindLandmarkPoints"
    THEN <<IF c.args[3] THEN "landmark-true" ELSE "landmark-false", c.face>>
    ELSE IF c.fn = "DrawImage" THEN <<"composite", c.face>>
    ELSE <<"encode", 0>>

IsPipelineCall(c) ==
    c.fn \in {"RunDetector", "FindLandmarkPoints", "DrawImage", "jpeg.Encode",
              "png.Encode"}

RECURSIVE StepsOf(_)
StepsOf(cs) ==
    IF cs = <<>> THEN <<>>
    ELSE IF IsPipelineCall(Head(cs)) THEN <<StepOf(Head(cs))>> \o StepsOf(Tail(cs))
    ELSE StepsOf(Tail(cs))

RECURSIVE ExpectedSteps(_, _)
\* the order the specification prescribes for the faces i..Len(fs)
ExpectedSteps(fs, i) ==
    IF i > Len(fs) THEN << <<"encode", 0>> >>
    ELSE IF fs[i].Q > 50
         THEN << <<"pupil-left", i>>, <<"pupil-right", i>>, <<"landmark-false", i>>,
                 <<"landmark-true", i>>, <<"composite", i>> >>
              \o ExpectedSteps(fs, i + 1)
         ELSE ExpectedSteps(fs, i + 1)

IsPrefix(a, b) == Len(a) <= Len(b) /\ a = SubSeq(b, 1, Len(a))

\* the canvas has the size of the source picture
OnCanvas(px) ==
    \E k \in 1..Len(dc) :
        /\ dc[k].op = "src"
        /\ px[1] >= 0 /\ px[1] < dc[k].w
        /\ px[2] >= 0 /\ px[2] < dc[k].h

\* Pixels of the canvas a draw operation certainly paints: the corners of a
\* stroked rectangle (the line is 2 wide), the centre of a filled marker of
\* radius 1 or more.  The pixels of the mask itself are not listed.
PaintedPixels(op) ==
    IF op.op = "rect"
    THEN { px \in { <<op.x, op.y>>, <<op.x + op.w, op.y>>,
                    <<op.x, op.y + op.h>>, <<op.x + op.w, op.y + op.h>> } :
           OnCanvas(px) }
    ELSE IF op.op = "marker"
    THEN { px \in { <<op.x, op.y>> } : op.w[1] >= op.w[2] /\ OnCanvas(px) }
    ELSE {}

\* px lies in the area the mask of face i can cover: the resized mask, turned
\* by any angle, stays within w + h pixels right of and below its origin
InMaskArea(i, px) ==
    \E d \in MaskDraws(i) :
        /\ px[1] >= dc[d].x /\ px[1] < dc[d].x + dc[d].w + dc[d].h
        /\ px[2] >= dc[d].y /\ px[2] < dc[d].y + dc[d].w + dc[d].h

----------------------------------------------------------------------------
(* The properties. *)

\* C1: the mask is drawn only for detections whose score is above 5.0, and
\* every detection the loop of drawFaces has finished has its mask on the
\* canvas exactly when its score is above 5.0 (a score of exactly 5.0 gets
\* none).
C1_OverlayIffAboveThreshold ==
    \A i \in 1..Len(faces) :
        /\ MaskDraws(i) # {} => faces[i].Q > 50
        /\ Passed(i) => (MaskDraws(i) # {} <=> faces[i].Q > 50)

\* a finished run that drew one face and left out a face of score exactly 5.0
C1_Witness ==
    /\ mainPc = "exited"
    /\ \E i, j \in 1..Len(faces) :
         /\ faces[i].Q = 50 /\ MaskDraws(i) = {}
         /\ faces[j].Q = 51 /\ MaskDraws(j) # {}

\* C2: every scale flag of 1.05 or less ends the run in the check of the
\* scale, before the spinner starts and before detectFaces is called, and
\* every flag above 1.05 passes that check.
C2_ScaleAtMostMinAborts ==
    /\ scaleFactor <= 105 =>
         /\ mainPc \in {"CheckArgs", "CheckExt", "CheckScale", "fatal"}
         /\ BeforeSpinner
    /\ scaleFactor > 105 => failure # "scale"

\* C3: with an empty -in, an empty -out or an -out that does not end in
\* .jpg, .jpeg or .png the run goes no further than the checks of the flags:
\* the spinner is not started, detectFaces is not called and the output is
\* not opened; with both paths given and a supported extension neither of the
\* two checks aborts.
C3_BadPathsAbortEarly ==
    LET bad == \/ Len(source) = 0
               \/ Len(destination) = 0
               \/ ~SupportedOutput(destination)
    IN  /\ bad => /\ mainPc \in {"CheckArgs", "CheckExt", "fatal"}
                  /\ mainPc = "fatal" => failure \in {"usage", "ext"}
                  /\ BeforeSpinner
        /\ ~bad => failure \notin {"usage", "ext"}
        /\ failure \in {"usage", "ext"} => mainPc = "fatal" /\ BeforeSpinner

\* the run was ended for an -out whose last path element has no extension
\* although a directory of the path has one
C3_Witness ==
    /\ mainPc = "fatal"
    /\ failure = "ext"
    /\ destination = <<"a", ".", "p", "n", "g", "/", "o">>
    /\ spinPc = "idle"

\* C4: every drawn face has width = dx*scale*0.75, height = dy*scale*0.75,
\* originX = faceCol - width/2 and originY = p1.row + (p1.row - p2.row)/2 -
\* height/2, up to the rounding to whole pixels; the detection (100, 100, 80,
\* score 10) with a 200x200 mask, p1 = (130, 90) and p2 = (128, 110) gets
\* scale 0.4, width = height = 60 and the origin (70, 101).
C4_MaskOrigin ==
    \A k \in 1..Len(transforms) :
        LET t == transforms[k]
            face == faces[t.face]
            p1 == world.scenes[t.face].flp1
            p2 == world.scenes[t.face].flp2
            wn == t.width[1]
            wd == t.width[2]
            hn == t.height[1]
            hd == t.height[2]
        IN  /\ RatEq(t.width, <<3 * world.mask.Dx * t.scale[1], 4 * t.scale[2]>>)
            /\ RatEq(t.height, <<3 * world.mask.Dy * t.scale[1], 4 * t.scale[2]>>)
            /\ Abs(2 * wd * (t.tx - face.Col) + wn) < 2 * wd
            /\ Abs(2 * hd * (t.ty - p1.Row) - hd * (p1.Row - p2.Row) + hn) < 4 * hd
            /\ ( /\ face = Det(100, 100, 80, 100)
                 /\ world.mask = [Dx |-> 200, Dy |-> 200]
                 /\ p1 = Pt(130, 90, 40)
                 /\ p2 = Pt(128, 110, 40) )
               => /\ RatEq(t.scale, <<4, 10>>)
                  /\ RatEq(t.width, <<60, 1>>)
                  /\ RatEq(t.height, <<60, 1>>)
                  /\ t.tx = 70
                  /\ t.ty = 101

\* C5: the scale of every drawn face is faceScale / max(dx, dy) when the face
\* is smaller than the mask in one dimension, else the scale of the last
\* earlier drawn face that was, and 0 when there is none; width and height
\* are dx and dy times that scale times 0.75, so both are 0 for a first face
\* at least as large as the mask.
C5_ScaleCarriedAcrossFaces ==
    \A k \in 1..Len(transforms) :
        LET t == transforms[k]
            expected == ScaleAfter(faces, t.face, world.mask)
        IN  /\ RatEq(t.scale, expected)
            /\ RatEq(t.width, <<3 * world.mask.Dx * expected[1], 4 * expected[2]>>)
            /\ RatEq(t.height, <<3 * world.mask.Dy * expected[1], 4 * expected[2]>>)
            /\ (\A j \in 1..t.face :
                    faces[j].Q > 50 => /\ faces[j].Scale >= world.mask.Dx
                                       /\ faces[j].Scale >= world.mask.Dy)
               => t.width[1] = 0 /\ t.height[1] = 0

\* a face at least as large as the mask was drawn with the scale an earlier,
\* smaller face had left
C5_Witness ==
    \E k \in 1..Len(transforms) :
        LET t == transforms[k]
        IN  /\ t.face > 1
            /\ faces[t.face].Scale >= world.mask.Dx
            /\ faces[t.face].Scale >= world.mask.Dy
            /\ t.scale[1] > 0
            /\ RatEq(t.scale, <<faces[t.face - 1].Scale, Max(world.mask.Dx, world.mask.Dy)>>)

\* C6: whenever main is at the send of spinner.stop the send can be done at
\* once; the spinner prints at most one frame after the send; once the signal
\* is sent the goroutine returns (unless the process ends first); and no step
\* of the spinner changes the canvas, the detections or any other state of
\* drawFaces.
C6_SpinnerStops ==
    /\ [](mainPc = "Stop" => ENABLED Stop)
    /\ [](framesAfterStop <= 1)
    /\ (stopSent ~> (spinPc = "returned" \/ mainPc = "exited"))
    /\ [][ ( /\ mainPc' = mainPc
             /\ (spinPc' # spinPc \/ r' # r \/ framesAfterStop' # framesAfterStop) )
           => UNCHANGED <<drawVars, flagVars>> ]_vars

\* the goroutine printed one more frame after the send and then returned while
\* main had not yet returned
C6_Witness ==
    /\ stopSent
    /\ framesAfterStop = 1
    /\ spinPc = "returned"
    /\ mainPc = "PrintDone"

\* C7: once reading the picture, reading or unpacking a cascade, or opening or
\* decoding the mask has failed, the run is over: the output was not opened
\* and nothing was encoded, the stop signal was not sent, the success line
\* was not printed, no call was made for a later face and the face at which
\* it failed is not drawn; and nothing of this changes afterwards.
C7_FailureAbortsRun ==
    /\ [](failure \in AbortingSteps =>
            /\ mainPc = "fatal"
            /\ ~outputOpened
            /\ CallsOf("jpeg.Encode") = {} /\ CallsOf("png.Encode") = {}
            /\ ~stopSent
            /\ stopChan = 0
            /\ ~donePrinted
            /\ \A k \in 1..Len(calls) : calls[k].face <= idx
            /\ \A i \in 1..Len(faces) : i >= idx => MaskDraws(i) = {})
    /\ [][ (failure \in AbortingSteps)
           => UNCHANGED <<mainPc, calls, dc, transforms, idx, outputOpened,
                          stopChan, stopSent, donePrinted>> ]_vars

\* the mask could not be opened for the first of two faces that both have a
\* score above 5.0
C7_Witness ==
    /\ failure = "OpenMask"
    /\ mainPc = "fatal"
    /\ idx = 1
    /\ Len(faces) = 2
    /\ faces[1].Q > 50
    /\ faces[2].Q > 50

\* C8: in one run the mask asset is opened at most once and decoded at most
\* once, however many faces have a score above 5.0.
C8_MaskReadOnce ==
    /\ Cardinality(MaskReads("OpenFile")) <= 1
    /\ Cardinality(MaskReads("Decode")) <= 1

\* C9: a face with a score above 5.0 for which a pupil or landmark point came
\* back degenerate (row <= 0 or col <= 0) is not skipped: the landmark
\* locator gets the pupils as they are, the face is drawn exactly once, the
\* angle and the origin are computed from the landmark points as they are,
\* and with both landmark points at (0, 0) originY is -height/2.
C9_DegeneratePointsStillDrawn ==
    \A i \in 1..Len(faces) :
        LET sc == world.scenes[i]
        IN  ( /\ Passed(i)
              /\ faces[i].Q > 50
              /\ \/ Degenerate(sc.leftEye) \/ Degenerate(sc.rightEye)
                 \/ Degenerate(sc.flp1) \/ Degenerate(sc.flp2) )
            => /\ Cardinality(MaskDraws(i)) = 1
               /\ \A k \in CallsOf("FindLandmarkPoints") :
                      calls[k].face = i =>
                          calls[k].args[1] = sc.leftEye /\ calls[k].args[2] = sc.rightEye
               /\ \E k \in 1..Len(transforms) :
                      LET t == transforms[k]
                          half == t.height[1] \div (2 * t.height[2])
                      IN  /\ t.face = i
                          /\ t.ay = sc.flp2.Col - sc.flp1.Col
                          /\ t.ax = sc.flp2.Row - sc.flp1.Row
                          /\ t.ty = sc.flp1.Row + GoDiv(sc.flp1.Row - sc.flp2.Row, 2) - half
                          /\ \A d \in MaskDraws(i) :
                                 dc[d].y = t.ty /\ dc[d].ay = t.ay /\ dc[d].ax = t.ax
                          /\ ( /\ sc.flp1.Row = 0 /\ sc.flp1.Col = 0
                               /\ sc.flp2.Row = 0 /\ sc.flp2.Col = 0 )
                             => t.ty = -half

\* a run finished after drawing, above the top of the picture, a face whose
\* two landmark points were (0, 0)
C9_Witness ==
    /\ mainPc = "exited"
    /\ \E k \in 1..Len(transforms) :
         LET t == transforms[k]
         IN  /\ world.scenes[t.face].flp1 = NoPoint
             /\ world.scenes[t.face].flp2 = NoPoint
             /\ t.height[1] > 0
             /\ t.ty < 0
             /\ MaskDraws(t.face) # {}

\* C10: the calls of the pupil locator, the landmark locator, the compositor
\* and the encoder come in the prescribed order: for each face with a score
\* above 5.0, in the order of the list, left pupil, right pupil, landmark with
\* flag false, landmark with flag true, composite, each once, and after the
\* last face one encode; both landmark calls of a face get the same eye pair,
\* the one the two pupil calls returned; a run that reaches the stop of the
\* spinner has made all of them.
C10_CallOrder ==
    LET steps == StepsOf(calls)
        expected == ExpectedSteps(faces, 1)
    IN  /\ IsPrefix(steps, expected)
        /\ mainPc \in {"Stop", "PrintDone", "Return", "exited"} => steps = expected
        /\ \A k \in CallsOf("FindLandmarkPoints") :
               /\ calls[k].args[1] = world.scenes[calls[k].face].leftEye
               /\ calls[k].args[2] = world.scenes[calls[k].face].rightEye

\* a finished run over two faces that were both drawn
C10_Witness ==
    /\ mainPc = "exited"
    /\ Len(faces) = 2
    /\ faces[1].Q > 50 /\ faces[2].Q > 50
    /\ Cardinality(CallsOf("DrawImage")) = 2
    /\ Cardinality(CallsOf("png.Encode")) = 1

\* C11: what the loop of drawFaces has drawn for a face lies inside the area
\* of the mask of that face: nothing is drawn for a face with a score of 5.0
\* or less, and for a face with a higher score no pixel outside its mask is
\* painted.
C11_OnlyMaskAreaChanges ==
    \A k \in 1..Len(dc) :
        LET op == dc[k]
        IN  (op.face > 0 /\ Passed(op.face))
            => /\ faces[op.face].Q > 50
               /\ \A px \in PaintedPixels(op) : InMaskArea(op.face, px)

====
